---- MODULE Spec2Model ----
(***************************************************************************)
(* A model of src/src/cmd/connection.rs: the Connection of a RESP-style    *)
(* framing layer.  One Connection reads frames from a byte stream          *)
(* (read_frame / parse_frame) and its peer is either a raw byte source     *)
(* replaying a script or another Connection serialising frames with        *)
(* write_frame.  Bytes are their ASCII codes.                              *)
(***************************************************************************)
EXTENDS Integers, Sequences, FiniteSets, TLC

VARIABLES
    buffer,      \* Connection.buffer: the BytesMut contents, Len(buffer) = buffer.len()
    capacity,    \* the BytesMut's allocated capacity
    cursor,      \* Connection.cursor, the fill cursor read_frame keeps
    rpc,         \* read_frame's position: "idle", "reading" (suspended in stream.read), "dead"
    results,     \* what each finished read_frame call returned, in call order
    received,    \* every byte stream.read has stored into the buffer, in order
    consumed,    \* how many bytes buffer.advance has removed so far
    lastFree,    \* the size of the destination slice of the latest stream.read (-1: none yet)
    wire,        \* bytes the peer has sent and the reader's socket holds, unread
    script,      \* the raw peer's whole byte script (fixed at start)
    toSend,      \* the part of the script the raw peer has not sent yet
    peerClosed,  \* the peer has closed its write side
    wbuf,        \* the writing Connection's BufWriter contents (written, not flushed)
    wlog,        \* one record per finished write_frame call
    wdead        \* the writing task panicked

vars == <<buffer, capacity, cursor, rpc, results, received, consumed, lastFree, wire, script,
          toSend, peerClosed, wbuf, wlog, wdead>>

readerVars == <<buffer, capacity, cursor, rpc, results, received, consumed, lastFree>>
writerVars == <<wbuf, wlog, wdead>>

(***************************************************************************)
(* Bounds of the model.                                                    *)
(***************************************************************************)
MaxCalls == 3
MaxWrites == 2

(***************************************************************************)
(* Bytes of the wire format.                                               *)
(***************************************************************************)
CR == 13
LF == 10
Plus == 43
Minus == 45
Colon == 58
Dollar == 36
Star == 42
Digit0 == 48
Filler == 0
InitialCapacity == 4096

CRLF == <<CR, LF>>

Min(a, b) == IF a < b THEN a ELSE b
Max(a, b) == IF a < b THEN b ELSE a

Drop(s, n) == SubSeq(s, n + 1, Len(s))
Take(s, n) == SubSeq(s, 1, n)

(***************************************************************************)
(* enum Frame.  Every frame is a record of the same shape so that any two  *)
(* frames can be compared: s is the text/bytes payload, n the integer, a   *)
(* the children of an Array.                                               *)
(***************************************************************************)
Simple(s) == [t |-> "Simple", s |-> s, n |-> 0, a |-> <<>>]
Error(s) == [t |-> "Error", s |-> s, n |-> 0, a |-> <<>>]
Integer(n) == [t |-> "Integer", s |-> <<>>, n |-> n, a |-> <<>>]
Bulk(s) == [t |-> "Bulk", s |-> s, n |-> 0, a |-> <<>>]
Null == [t |-> "Null", s |-> <<>>, n |-> 0, a |-> <<>>]
Array(a) == [t |-> "Array", s |-> <<>>, n |-> 0, a |-> a]
NoFrame == [t |-> "None", s |-> <<>>, n |-> 0, a |-> <<>>]

(***************************************************************************)
(* write_decimal: the value as base-10 ASCII digits, then CR-LF.           *)
(***************************************************************************)
RECURSIVE Digits(_)
Digits(n) == IF n < 10 THEN <<Digit0 + n>> ELSE Digits(n \div 10) \o <<Digit0 + (n % 10)>>

write_decimal(val) == <<Digits(val), CRLF>>

(***************************************************************************)
(* The pieces write_frame hands to the BufWriter for a frame, in order,    *)
(* one per write call.  An Array reaches unimplemented!() before any       *)
(* write: Unimplemented(frame) tells the two apart.                        *)
(***************************************************************************)
Unimplemented(frame) == frame.t = "Array"

\* A write_frame that leaves out the CR-LF after a Simple or Error text and
\* the one after a Bulk payload.
PiecesWithoutLastCRLF(frame) ==
    CASE frame.t = "Simple" -> <<<<Plus>>, frame.s>>
      [] frame.t = "Error" -> <<<<Minus>>, frame.s>>
      [] frame.t = "Integer" -> <<<<Colon>>>> \o write_decimal(frame.n)
      [] frame.t = "Null" -> <<<<Dollar, Minus, Digit0 + 1, CR, LF>>>>
      [] frame.t = "Bulk" -> <<<<Dollar>>>> \o write_decimal(Len(frame.s)) \o <<frame.s>>
      [] OTHER -> <<>>

Pieces(frame) ==
    CASE frame.t = "Simple" -> <<<<Plus>>, frame.s, CRLF>>
      [] frame.t = "Error" -> <<<<Minus>>, frame.s, CRLF>>
      [] frame.t = "Integer" -> <<<<Colon>>>> \o write_decimal(frame.n)
      [] frame.t = "Null" -> <<<<Dollar, Minus, Digit0 + 1, CR, LF>>>>
      [] frame.t = "Bulk" -> <<<<Dollar>>>> \o write_decimal(Len(frame.s)) \o <<frame.s, CRLF>>
      [] OTHER -> <<>>

RECURSIVE Concat(_)
Concat(ps) == IF ps = <<>> THEN <<>> ELSE Head(ps) \o Concat(Tail(ps))

(***************************************************************************)
(* Frame::check and Frame::parse.  ScanAt(b, pos) scans one frame of the   *)
(* span b starting after its first pos bytes and gives the status, the     *)
(* offset just behind the frame and the frame: "incomplete" when the span  *)
(* ends before the frame does, "error" on a protocol error.                *)
(***************************************************************************)
IsDigit(c) == c >= Digit0 /\ c <= Digit0 + 9

RECURSIVE Atoi(_)
Atoi(line) ==
    IF line = <<>> THEN 0
    ELSE Atoi(Take(line, Len(line) - 1)) * 10 + (line[Len(line)] - Digit0)

AllDigits(line) == line /= <<>> /\ \A i \in 1..Len(line) : IsDigit(line[i])

Scanned(st, pos, f) == [st |-> st, pos |-> pos, f |-> f]

Minimum(S) == CHOOSE j \in S : \A k \in S : j <= k

\* get_line: the bytes from pos up to the first CR-LF, and the offset behind it.
LineEnds(b, pos) == {i \in pos..(Len(b) - 2) : b[i + 1] = CR /\ b[i + 2] = LF}

LineUpTo(b, pos, i) == [st |-> "ok", line |-> SubSeq(b, pos + 1, i), pos |-> i + 2]

LineAmong(b, pos, ends) ==
    IF ends = {} THEN [st |-> "incomplete", line |-> <<>>, pos |-> pos]
    ELSE LineUpTo(b, pos, Minimum(ends))

get_line(b, pos) == LineAmong(b, pos, LineEnds(b, pos))

\* get_decimal: a line of decimal digits, as a number.
DecimalOf(l, pos) ==
    IF l.st /= "ok" THEN [st |-> l.st, n |-> 0, pos |-> pos]
    ELSE IF ~AllDigits(l.line) THEN [st |-> "error", n |-> 0, pos |-> pos]
    ELSE [st |-> "ok", n |-> Atoi(l.line), pos |-> l.pos]

get_decimal(b, pos) == DecimalOf(get_line(b, pos), pos)

\* Simple and Error: a line of text that holds no CR and no LF.
TextOk(line) == \A i \in 1..Len(line) : line[i] /= CR /\ line[i] /= LF

LineFrame(l, pos, sigil) ==
    IF l.st /= "ok" THEN Scanned(l.st, pos, NoFrame)
    ELSE IF ~TextOk(l.line) THEN Scanned("error", pos, NoFrame)
    ELSE Scanned("ok", l.pos, IF sigil = Plus THEN Simple(l.line) ELSE Error(l.line))

ScanLine(b, pos, sigil) == LineFrame(get_line(b, pos), pos, sigil)

\* Integer: decimal digits only.
IntegerFrame(d, pos) ==
    IF d.st /= "ok" THEN Scanned(d.st, pos, NoFrame) ELSE Scanned("ok", d.pos, Integer(d.n))

ScanInteger(b, pos) == IntegerFrame(get_decimal(b, pos), pos)

\* Null is $-1 CR-LF; Bulk is a decimal length, CR-LF, that many bytes, CR-LF.
NullFrame(l, pos) ==
    IF l.st /= "ok" THEN Scanned(l.st, pos, NoFrame)
    ELSE IF l.line /= <<Minus, Digit0 + 1>> THEN Scanned("error", pos, NoFrame)
    ELSE Scanned("ok", l.pos, Null)

BulkFrame(b, d, pos) ==
    IF d.st /= "ok" THEN Scanned(d.st, pos, NoFrame)
    ELSE IF Len(b) - d.pos < d.n + 2 THEN Scanned("incomplete", pos, NoFrame)
    ELSE IF SubSeq(b, d.pos + d.n + 1, d.pos + d.n + 2) /= CRLF
    THEN Scanned("error", pos, NoFrame)
    ELSE Scanned("ok", d.pos + d.n + 2, Bulk(SubSeq(b, d.pos + 1, d.pos + d.n)))

ScanBulk(b, pos) ==
    IF pos >= Len(b) THEN Scanned("incomplete", pos, NoFrame)
    ELSE IF b[pos + 1] = Minus THEN NullFrame(get_line(b, pos), pos)
    ELSE BulkFrame(b, get_decimal(b, pos), pos)

\* Array: a decimal count, CR-LF, then that many frames.
RECURSIVE ScanAt(_, _)
RECURSIVE ScanElems(_, _, _, _)
RECURSIVE NextElem(_, _, _, _, _)

NextElem(b, e, pos, count, acc) ==
    IF e.st /= "ok" THEN Scanned(e.st, pos, NoFrame)
    ELSE ScanElems(b, e.pos, count - 1, Append(acc, e.f))

ScanElems(b, pos, count, acc) ==
    IF count = 0 THEN Scanned("ok", pos, Array(acc))
    ELSE NextElem(b, ScanAt(b, pos), pos, count, acc)

ArrayFrame(b, d, pos) ==
    IF d.st /= "ok" THEN Scanned(d.st, pos, NoFrame) ELSE ScanElems(b, d.pos, d.n, <<>>)

ScanSigil(b, pos, sigil) ==
    CASE sigil = Plus \/ sigil = Minus -> ScanLine(b, pos + 1, sigil)
      [] sigil = Colon -> ScanInteger(b, pos + 1)
      [] sigil = Dollar -> ScanBulk(b, pos + 1)
      [] sigil = Star -> ArrayFrame(b, get_decimal(b, pos + 1), pos)
      [] OTHER -> Scanned("error", pos, NoFrame)

ScanAt(b, pos) ==
    IF pos >= Len(b) THEN Scanned("incomplete", pos, NoFrame) ELSE ScanSigil(b, pos, b[pos + 1])

\* Frame::check: Ok with the cursor behind the frame, Incomplete, or an error.
Checked(r) == [st |-> r.st, position |-> r.pos]

check(b) == Checked(ScanAt(b, 0))

\* Frame::parse of a span that check accepted.
parse(b) == ScanAt(b, 0).f

(***************************************************************************)
(* The wire encoding of a frame (all six variants, Array recursively):     *)
(* what a well-formed peer sends.                                          *)
(***************************************************************************)
RECURSIVE RespEncode(_)
RECURSIVE RespEncodeAll(_)
RespEncodeAll(fs) == IF fs = <<>> THEN <<>> ELSE RespEncode(Head(fs)) \o RespEncodeAll(Tail(fs))

RespEncode(f) ==
    CASE f.t = "Simple" -> <<Plus>> \o f.s \o CRLF
      [] f.t = "Error" -> <<Minus>> \o f.s \o CRLF
      [] f.t = "Integer" -> <<Colon>> \o Digits(f.n) \o CRLF
      [] f.t = "Null" -> <<Dollar, Minus, Digit0 + 1>> \o CRLF
      [] f.t = "Bulk" -> <<Dollar>> \o Digits(Len(f.s)) \o CRLF \o f.s \o CRLF
      [] f.t = "Array" -> <<Star>> \o Digits(Len(f.a)) \o CRLF \o RespEncodeAll(f.a)

(***************************************************************************)
(* The frames and the raw byte scripts of the model.                       *)
(***************************************************************************)
OK == <<79, 75>>
Hel == <<104, 101, 108>>

Frames ==
    { Simple(OK), Error(<<69>>), Integer(12), Bulk(<<104, 105>>), Null,
      Array(<<Integer(1), Null>>), Array(<<Array(<<Simple(OK)>>)>>) }

\* Scripts of whole frames, a frame cut short, and a malformed frame.
WholeScripts == {<<f>> : f \in Frames} \cup {<<Simple(OK), Integer(12)>>}

RawStreams ==
    {<<>>}
    \cup {RespEncodeAll(fs) : fs \in WholeScripts}
    \cup { <<Dollar, Digit0 + 5>> \o CRLF \o Hel,
           <<Colon, Digit0 + 1, Digit0 + 2, 97>> \o CRLF }

(***************************************************************************)
(* Connection::new: the BytesMut is made with_capacity(4096), so its       *)
(* length is 0.  The struct declares no cursor field although read_frame   *)
(* uses self.cursor; it starts at 0, the fill cursor of an empty buffer    *)
(* (with any other start the first slice buffer[cursor..] is out of        *)
(* range).                                                                 *)
(***************************************************************************)
Init ==
    /\ buffer = <<>>
    /\ capacity = InitialCapacity
    /\ cursor = 0
    /\ rpc = "idle"
    /\ results = <<>>
    /\ received = <<>>
    /\ consumed = 0
    /\ lastFree = -1
    /\ wire = <<>>
    /\ script \in RawStreams
    /\ toSend = script
    /\ peerClosed = FALSE
    /\ wbuf = <<>>
    /\ wlog = <<>>
    /\ wdead = FALSE

(***************************************************************************)
(* Connection::parse_frame on the buffer: check runs over &self.buffer[..],*)
(* the whole buffer; a checked frame is parsed and buffer.advance(len)     *)
(* removes its bytes.                                                      *)
(***************************************************************************)
advance(buf, len) == Drop(buf, len)

\* A parse_frame that hands check's Incomplete on to its caller as an error.
ParsedSurfacesIncomplete(buf, c) ==
    CASE c.st = "ok" ->
           [kind |-> "frame", frame |-> parse(buf), len |-> c.position,
            buffer |-> advance(buf, c.position)]
      [] c.st = "incomplete" ->
           [kind |-> "incomplete", frame |-> NoFrame, len |-> 0, buffer |-> buf]
      [] OTHER ->
           [kind |-> "protocol", frame |-> NoFrame, len |-> 0, buffer |-> buf]

\* A parse_frame that drops the first buffered byte when the scan is cut short.
ParsedEatsOnIncomplete(buf, c) ==
    CASE c.st = "ok" ->
           [kind |-> "frame", frame |-> parse(buf), len |-> c.position,
            buffer |-> advance(buf, c.position)]
      [] c.st = "incomplete" ->
           [kind |-> "none", frame |-> NoFrame, len |-> 0, buffer |-> Drop(buf, 1)]
      [] OTHER ->
           [kind |-> "protocol", frame |-> NoFrame, len |-> 0, buffer |-> buf]

Parsed(buf, c) ==
    CASE c.st = "ok" ->
           [kind |-> "frame", frame |-> parse(buf), len |-> c.position,
            buffer |-> advance(buf, c.position)]
      [] c.st = "incomplete" ->
           [kind |-> "none", frame |-> NoFrame, len |-> 0, buffer |-> buf]
      [] OTHER ->
           [kind |-> "protocol", frame |-> NoFrame, len |-> 0, buffer |-> buf]

parse_frame(buf) == Parsed(buf, check(buf))

(***************************************************************************)
(* read_frame, lines 40-43: when buffer.len() equals the cursor the buffer *)
(* is resized to twice the cursor, the new bytes zero.                     *)
(***************************************************************************)
resize(buf, newLen) ==
    IF newLen <= Len(buf) THEN Take(buf, newLen)
    ELSE buf \o [i \in 1..(newLen - Len(buf)) |-> Filler]

\* A growth to one byte more than twice the cursor.
NewLenOneMore(cur) == cur * 2 + 1

\* A growth that leaves room for a dozen bytes beyond twice the cursor.
NewLenRoomy(cur) == cur * 2 + 12

NewLen(cur) == cur * 2

\* A growth check that makes room for one more byte.
GrowByOne(buf, cur) == IF Len(buf) = cur THEN resize(buf, cur + 1) ELSE buf

\* A growth check that makes room for four bytes beyond twice the cursor.
GrowWithRoom(buf, cur) == IF Len(buf) = cur THEN resize(buf, cur * 2 + 4) ELSE buf

Grow(buf, cur) == IF Len(buf) = cur THEN resize(buf, NewLen(cur)) ELSE buf

\* A read_frame that takes every zero-byte read for a reset.
ZeroReadAlwaysReset(cur) == "reset"

\* read_frame, lines 49-54: what a stream read of zero bytes returns.
ZeroRead(cur) == IF cur = 0 THEN "none" ELSE "reset"

(***************************************************************************)
(* What a read_frame call returned: kind is "frame" (Ok(Some)), "none"     *)
(* (Ok(None)), "reset", "protocol", "io" (Err) or "panic"; by is the step  *)
(* that ended the call ("parse", "zero": a stream read of zero bytes,      *)
(* "ioerr", "slice"); pending counts the bytes received and not yet        *)
(* removed at that moment, waiting the bytes the socket still held, and    *)
(* closed tells whether the peer had closed.                               *)
(***************************************************************************)
Result(kind, frame, by, pending) ==
    [kind |-> kind, frame |-> frame, by |-> by, pending |-> pending,
     waiting |-> Len(wire'), closed |-> peerClosed']

(***************************************************************************)
(* One pass of read_frame's loop from its top, on buffer buf: it returns a *)
(* frame or a protocol error, or it grows the buffer and suspends in       *)
(* stream.read on &mut buffer[cursor..] (a slice that panics when the      *)
(* cursor is beyond the buffer's length).                                  *)
(***************************************************************************)
Continue(p, grown, cur, rcvd) ==
    /\ cursor' = cur
    /\ received' = rcvd
    /\ IF p.kind /= "none"
       THEN /\ buffer' = p.buffer
            /\ capacity' = capacity - p.len
            /\ consumed' = consumed + p.len
            /\ rpc' = "idle"
            /\ results' = Append(results, Result(p.kind, p.frame, "parse",
                                                 Len(rcvd) - (consumed + p.len)))
            /\ lastFree' = lastFree
       ELSE /\ buffer' = grown
            /\ capacity' = Max(capacity, Len(grown))
            /\ consumed' = consumed
            /\ IF cur > Len(grown)
               THEN /\ rpc' = "dead"
                    /\ results' = Append(results, Result("panic", NoFrame, "slice",
                                                         Len(rcvd) - consumed))
                    /\ lastFree' = lastFree
               ELSE /\ rpc' = "reading"
                    /\ results' = results
                    /\ lastFree' = Len(grown) - cur

LoopTop(buf, cur, rcvd) == Continue(parse_frame(buf), Grow(buf, cur), cur, rcvd)

\* A caller calls read_frame.
ReadFrame ==
    /\ rpc = "idle"
    /\ Len(results) < MaxCalls
    /\ UNCHANGED <<wire, script, toSend, peerClosed, writerVars>>
    /\ LoopTop(buffer, cursor, received)

(***************************************************************************)
(* stream.read completes: with no room in the slice it gives 0 as soon as  *)
(* the socket is readable, with room it gives 1..room of the waiting       *)
(* bytes, and 0 when the peer has closed and nothing waits.  Zero ends the *)
(* call (lines 49-54); otherwise the cursor moves and the loop goes on.    *)
(***************************************************************************)
ReadSizes ==
    LET room == Len(buffer) - cursor
    IN IF room = 0 \/ wire = <<>> THEN {0} ELSE 1..Min(room, Len(wire))

\* A stream read that completes only when bytes wait, not when the peer closed.
StreamReadWaitsForBytes ==
    /\ rpc = "reading"
    /\ wire /= <<>>
    /\ UNCHANGED <<script, toSend, peerClosed, writerVars>>
    /\ \E n \in ReadSizes :
          IF n = 0
          THEN /\ UNCHANGED <<buffer, capacity, cursor, received, consumed, lastFree, wire>>
               /\ rpc' = "idle"
               /\ results' = Append(results, Result(ZeroRead(cursor), NoFrame, "zero",
                                                    Len(received) - consumed))
          ELSE /\ wire' = Drop(wire, n)
               /\ LoopTop(Take(buffer, cursor) \o Take(wire, n) \o Drop(buffer, cursor + n),
                          cursor + n, received \o Take(wire, n))

StreamRead ==
    /\ rpc = "reading"
    /\ wire /= <<>> \/ peerClosed
    /\ UNCHANGED <<script, toSend, peerClosed, writerVars>>
    /\ \E n \in ReadSizes :
          IF n = 0
          THEN /\ UNCHANGED <<buffer, capacity, cursor, received, consumed, lastFree, wire>>
               /\ rpc' = "idle"
               /\ results' = Append(results, Result(ZeroRead(cursor), NoFrame, "zero",
                                                    Len(received) - consumed))
          ELSE /\ wire' = Drop(wire, n)
               /\ LoopTop(Take(buffer, cursor) \o Take(wire, n) \o Drop(buffer, cursor + n),
                          cursor + n, received \o Take(wire, n))

\* stream.read fails: the ? of line 47 returns the I/O error.
StreamReadError ==
    /\ rpc = "reading"
    /\ UNCHANGED <<buffer, capacity, cursor, received, consumed, lastFree, wire, script, toSend,
                   peerClosed, writerVars>>
    /\ rpc' = "idle"
    /\ results' = Append(results, Result("io", NoFrame, "ioerr", Len(received) - consumed))

(***************************************************************************)
(* The raw peer sends the next bytes of its script, and closes.            *)
(***************************************************************************)
PeerSend ==
    /\ ~peerClosed
    /\ toSend /= <<>>
    /\ \E k \in 1..Len(toSend) :
          /\ wire' = wire \o Take(toSend, k)
          /\ toSend' = Drop(toSend, k)
    /\ UNCHANGED <<readerVars, script, peerClosed, writerVars>>

PeerClose ==
    /\ ~peerClosed
    /\ toSend = <<>>
    /\ peerClosed' = TRUE
    /\ UNCHANGED <<readerVars, wire, script, toSend, writerVars>>

(***************************************************************************)
(* write_frame(frame) on the peer Connection.  Each piece is one write to  *)
(* the BufWriter, propagated with ? when it fails; then stream.flush()     *)
(* hands the BufWriter's bytes to the transport.  fail = 0: the transport  *)
(* works; fail = k: the k-th write fails; fail = number of pieces + 1: the *)
(* flush fails.  The result of the flush is dropped (line 95) and Ok(())   *)
(* returned (line 97).                                                     *)
(***************************************************************************)
FlushResult(flushFailed) == "ok"

\* One write_frame call: its outcome, which step failed, the bytes the call
\* put into the BufWriter and the bytes the flush handed to the transport.
Written(frame, res, failed, emitted, handed) ==
    [frame |-> frame, res |-> res, failed |-> failed, emitted |-> emitted, handed |-> handed]

WriteFrame(frame, fail) ==
    LET pieces == Pieces(frame)
        all == wbuf \o Concat(pieces)
    IN IF Unimplemented(frame)
       THEN \* unimplemented!() panics; unwinding drops the stream
            /\ fail = 0
            /\ wdead' = TRUE
            /\ peerClosed' = TRUE
            /\ wlog' = Append(wlog, Written(frame, "panic", "none", <<>>, <<>>))
            /\ UNCHANGED <<wbuf, wire>>
       ELSE /\ fail \in 0..(Len(pieces) + 1)
            /\ UNCHANGED <<wdead, peerClosed>>
            /\ IF fail = 0
               THEN /\ wbuf' = <<>>
                    /\ wire' = wire \o all
                    /\ wlog' = Append(wlog, Written(frame, FlushResult(FALSE), "none", Concat(pieces), all))
               ELSE IF fail = Len(pieces) + 1
               THEN /\ wbuf' = all
                    /\ wire' = wire
                    /\ wlog' = Append(wlog, Written(frame, FlushResult(TRUE), "flush", Concat(pieces), <<>>))
               ELSE /\ wbuf' = wbuf \o Concat(Take(pieces, fail - 1))
                    /\ wire' = wire
                    /\ wlog' = Append(wlog, Written(frame, "io", "write", Concat(Take(pieces, fail - 1)), <<>>))

\* The peer is a Connection calling write_frame when it replays no raw script.
WriteFrameCall ==
    /\ script = <<>>
    /\ ~wdead
    /\ ~peerClosed
    /\ Len(wlog) < MaxWrites
    /\ \E frame \in Frames : \E fail \in 0..(Len(Pieces(frame)) + 1) : WriteFrame(frame, fail)
    /\ UNCHANGED <<readerVars, script, toSend>>

Next ==
    \/ ReadFrame
    \/ StreamRead
    \/ StreamReadError
    \/ PeerSend
    \/ PeerClose
    \/ WriteFrameCall

Spec == Init /\ [][Next]_vars

(***************************************************************************)
(* Properties.                                                             *)
(***************************************************************************)
Returned == [i \in 1..Len(SelectSeq(results, LAMBDA r : r.kind = "frame")) |->
                SelectSeq(results, LAMBDA r : r.kind = "frame")[i].frame]

EndsWith(s, t) == Len(s) >= Len(t) /\ Drop(s, Len(s) - Len(t)) = t

\* A non-empty span that is the beginning of a frame and not yet a whole one.
IsPartial(b) == b /= <<>> /\ check(b).st = "incomplete"

(* C1: fragmentation independence.  When the peer's byte stream is the     *)
(* encoding of one frame, delivered in any chunks, the first read_frame    *)
(* call returns that frame (unless the transport fails), and no later call *)
(* returns a frame again.                                                  *)
C1_FragmentationIndependence ==
    \A f \in Frames :
        (script = RespEncode(f) /\ results /= <<>> /\ results[1].by /= "ioerr")
        => /\ results[1].kind = "frame"
           /\ results[1].frame = f
           /\ \A i \in 2..Len(results) : results[i].kind /= "frame"

(* C2: clean end-of-stream.  A read_frame call that ends on a stream read  *)
(* of zero bytes while no received byte is left unconsumed returns         *)
(* Ok(None), not an error.                                                 *)
C2_CleanEndOfStream ==
    \A i \in 1..Len(results) :
        (results[i].by = "zero" /\ results[i].pending = 0) => results[i].kind = "none"

C2_Witness ==
    \E i \in 1..Len(results) :
        /\ results[i].by = "zero"
        /\ results[i].pending = 0
        /\ results[i].closed
        /\ results[i].waiting = 0
        /\ results[i].kind = "none"

(* C3: connection reset.  A read_frame call that ends on a stream read of  *)
(* zero bytes returns a reset error whenever received bytes are left that  *)
(* form no whole frame; so it does when the peer delivered the beginning   *)
(* of a frame and closed.                                                  *)
C3_ConnectionReset ==
    \A i \in 1..Len(results) :
        /\ (results[i].by = "zero" /\ results[i].pending > 0) => results[i].kind = "reset"
        /\ (results[i].by = "zero" /\ results[i].closed /\ IsPartial(script))
           => results[i].kind = "reset"

(* C4: read_frame returns Ok(None) only when the peer has closed its write *)
(* side and no delivered byte is left unread.                              *)
C4_NoneOnlyWhenClosed ==
    \A i \in 1..Len(results) :
        results[i].kind = "none" => (results[i].closed /\ results[i].waiting = 0)

(* C5: round trip.  When the first write_frame call of the peer meets no   *)
(* transport failure, it completes, and the first read_frame call on the   *)
(* reading Connection returns a frame equal to the one written (unless the *)
(* read side's transport fails).                                           *)
C5_RoundTrip ==
    (wlog /= <<>> /\ wlog[1].failed = "none" /\ results /= <<>> /\ results[1].by /= "ioerr")
    => /\ wlog[1].res = "ok"
       /\ results[1].kind = "frame"
       /\ results[1].frame = wlog[1].frame

(* C6: write_frame of an Array completes normally and hands the transport  *)
(* the Array's encoding: *, the count, CR-LF, then the children.           *)
C6_ArrayWrite ==
    \A i \in 1..Len(wlog) :
        (wlog[i].frame.t = "Array" /\ wlog[i].failed = "none")
        => /\ wlog[i].res = "ok"
           /\ EndsWith(wlog[i].handed, RespEncode(wlog[i].frame))

(* C7: I/O errors are propagated.  A read_frame call whose stream read     *)
(* failed returns the I/O error, and a write_frame call one of whose       *)
(* writes or whose flush failed returns the I/O error, never Ok(()).       *)
C7_IoErrorsPropagated ==
    /\ \A i \in 1..Len(results) : results[i].by = "ioerr" => results[i].kind = "io"
    /\ \A i \in 1..Len(wlog) : wlog[i].failed /= "none" => wlog[i].res = "io"

(* C8: exact consumption.  The frames returned so far are exactly the      *)
(* bytes removed from the front of the received stream, in order; and when *)
(* the peer's stream consists of whole frames, a read_frame call reports   *)
(* the end of the stream only after all of them have been returned.        *)
C8_ExactConsumption ==
    /\ consumed <= Len(received)
    /\ RespEncodeAll(Returned) = Take(received, consumed)
    /\ \A fs \in WholeScripts :
          (script = RespEncodeAll(fs) /\ \E i \in 1..Len(results) : results[i].kind = "none")
          => Returned = fs

(* C10: buffer growth.  Every stream read is given a destination slice of  *)
(* at least one byte.                                                      *)
C10_BufferGrowth == rpc = "reading" => lastFree >= 1

\* The malformed Integer frame ":12a" CR-LF.
BadInteger == <<Colon, Digit0 + 1, Digit0 + 2, 97>> \o CRLF

(* C11: protocol errors are surfaced and fatal.  A read_frame call that    *)
(* finds a protocol error in the buffered bytes returns it, with no frame  *)
(* and no byte removed; so when the peer's stream is the malformed         *)
(* ":12a" CR-LF, the first read_frame call returns a protocol error        *)
(* (unless the transport fails).                                           *)
C11_ProtocolErrorSurfaced ==
    /\ \A i \in 1..Len(results) :
          results[i].kind = "protocol" => (results[i].by = "parse" /\ results[i].frame = NoFrame)
    /\ (script = BadInteger /\ results /= <<>> /\ results[1].by /= "ioerr")
       => results[1].kind = "protocol"

(* C12: Incomplete is never surfaced.  A read_frame call only ever returns *)
(* a frame, Ok(None), a reset error, a protocol error or an I/O error; and *)
(* a call that finds check reporting Incomplete on the buffer returns      *)
(* nothing at that point: it goes on to the stream read.                   *)
C12_OutcomesOnly ==
    \A i \in 1..Len(results) : results[i].kind \in {"frame", "none", "reset", "protocol", "io"}

C12_IncompleteGoesOnToRead ==
    (rpc = "idle" /\ check(buffer).st = "incomplete" /\ (rpc' /= "idle" \/ results' /= results))
    => (rpc' = "reading" /\ results' = results)

C12_IncompleteNeverSurfaced == [](C12_OutcomesOnly) /\ [][C12_IncompleteGoesOnToRead]_vars

C12_Witness == rpc = "reading" /\ check(buffer).st = "incomplete" /\ results /= <<>>

IsPrefix(a, b) == Len(a) <= Len(b) /\ Take(b, Len(a)) = a

(* C13: byte-exact serialization of the non-array variants.  A write_frame *)
(* call on a Simple, Error, Integer, Null or Bulk frame all of whose       *)
(* writes succeeded has put into the buffered writer exactly the frame's   *)
(* wire encoding, nothing before, between or after; a call one of whose    *)
(* writes failed has put a prefix of it.                                   *)
C13_ByteExactSerialization ==
    \A i \in 1..Len(wlog) :
        wlog[i].frame.t /= "Array"
        => /\ wlog[i].failed /= "write" => wlog[i].emitted = RespEncode(wlog[i].frame)
           /\ wlog[i].failed = "write" => IsPrefix(wlog[i].emitted, RespEncode(wlog[i].frame))

C13_Witness ==
    \E i \in 1..Len(wlog) :
        /\ wlog[i].frame = Bulk(<<104, 105>>)
        /\ wlog[i].failed = "none"
        /\ wlog[i].emitted = <<Dollar, Digit0 + 2, CR, LF, 104, 105, CR, LF>>

(* C14: flush before return.  Every write_frame call that returned success *)
(* wrote all pieces of its frame and then flushed: the flush handed the    *)
(* call's bytes to the transport, and at return the write buffer holds no  *)
(* byte.                                                                   *)
C14_FlushBeforeReturn ==
    \A i \in 1..Len(wlog) :
        wlog[i].res = "ok"
        => /\ wlog[i].emitted = Concat(Pieces(wlog[i].frame))
           /\ EndsWith(wlog[i].handed, wlog[i].emitted)
           /\ i = Len(wlog) => wbuf = <<>>

(* C15: the receive buffer never shrinks.  No step leaves the buffer with  *)
(* a smaller capacity or a smaller length than before, and every step that *)
(* makes the buffer longer doubles its length.                             *)
C15_NoShrinkStep ==
    /\ capacity' >= capacity
    /\ Len(buffer') >= Len(buffer)
    /\ Len(buffer') > Len(buffer) => Len(buffer') = 2 * Len(buffer)

Unconsumed == Drop(received, consumed)

NothingInFlight == wire = <<>>

ReaderNext ==
    \/ ReadFrame
    \/ StreamRead
    \/ StreamReadError
    \/ PeerSend
    \/ PeerClose

FairSpec ==
    /\ Init
    /\ [][ReaderNext]_vars
    /\ WF_vars(StreamRead)
    /\ WF_vars(PeerSend)
    /\ WF_vars(PeerClose /\ NothingInFlight)

(* C17: read_frame does not hang.  When every stream read that can         *)
(* complete eventually completes and the peer eventually completes a frame *)
(* or closes, every read_frame call suspended in a stream read eventually  *)
(* returns.                                                                *)
C17_ReadFrameReturns == (rpc = "reading") ~> (rpc /= "reading")

\* A read_frame call that was suspended in its stream read has returned
\* while the peer was still open.
C17_Witness ==
    \E i \in 1..Len(results) :
        /\ results[i].by = "zero"
        /\ ~results[i].closed
        /\ results[i].waiting > 0

(***************************************************************************)
(* parse_frame on its own (lines 101-130), called repeatedly on a buffer   *)
(* that holds any leading part of a peer's stream followed by filler.  It  *)
(* scans the whole buffer (line 105) and never touches the cursor.         *)
(***************************************************************************)
MaxFill == 1

Fill(n) == [i \in 1..n |-> Filler]

\* What one parse_frame call did: its result, and the buffer and the cursor
\* before and after it.
ParseResult(p, before, curBefore, curAfter) ==
    [kind |-> p.kind, frame |-> p.frame, by |-> "parse", before |-> before, after |-> p.buffer,
     cursorBefore |-> curBefore, cursorAfter |-> curAfter]

ParseInit ==
    /\ \E raw \in RawStreams : \E k \in 0..Len(raw) : \E n \in 0..MaxFill :
          /\ buffer = Take(raw, k) \o Fill(n)
          /\ cursor = k
    /\ capacity = InitialCapacity
    /\ rpc = "idle"
    /\ results = <<>>
    /\ received = <<>>
    /\ consumed = 0
    /\ lastFree = -1
    /\ wire = <<>>
    /\ script = <<>>
    /\ toSend = <<>>
    /\ peerClosed = FALSE
    /\ wbuf = <<>>
    /\ wlog = <<>>
    /\ wdead = FALSE

ParseFrameCall ==
    /\ Len(results) < MaxCalls
    /\ buffer' = parse_frame(buffer).buffer
    /\ cursor' = cursor
    /\ results' = Append(results, ParseResult(parse_frame(buffer), buffer, cursor, cursor'))
    /\ UNCHANGED <<capacity, rpc, received, consumed, lastFree, wire, script, toSend, peerClosed,
                   writerVars>>

ParseNext == ParseFrameCall

SpecParse == ParseInit /\ [][ParseNext]_vars

(* C18: a failed scan changes nothing.  A parse_frame call on a buffer on  *)
(* which check reports Incomplete returns Ok(None) and leaves the buffer's *)
(* contents and length and the cursor as they were, and the next call on   *)
(* that buffer gives the same result.                                      *)
C18_FailedScanChangesNothing ==
    \A i \in 1..Len(results) :
        check(results[i].before).st = "incomplete"
        => /\ results[i].kind = "none"
           /\ results[i].after = results[i].before
           /\ results[i].cursorAfter = results[i].cursorBefore
           /\ i < Len(results)
              => /\ results[i + 1].before = results[i].before
                 /\ results[i + 1].kind = results[i].kind
                 /\ results[i + 1].frame = results[i].frame
                 /\ results[i + 1].after = results[i].after

\* parse_frame has run twice on the cut-short Bulk frame "$5" CR-LF "hel".
C18_Witness ==
    /\ Len(results) >= 2
    /\ results[1].before = <<Dollar, Digit0 + 5>> \o CRLF \o Hel
    /\ results[2].before = results[1].before
    /\ results[1].kind = "none"

====
